---- MODULE Spec2Model ----
(***************************************************************************)
(* Model of wt_version (src/src/lib.rs): the Version value type with its   *)
(* 64-bit packing, its dotted-string parser/formatter/validator and its    *)
(* ordering.                                                               *)
(*                                                                         *)
(* u64 values are modelled as bit vectors [0..63 -> {0,1}] so that shifts, *)
(* masks and ors are computed bit by bit at their real width.  Strings are *)
(* sequences of one-character strings.  An absent value is <<>>, a present *)
(* value v is <<v>>.                                                        *)
(***************************************************************************)
EXTENDS Integers, Sequences, FiniteSets, TLC

VARIABLES
    ver,        \* Option<Version>: `self`, the Version handed to the program
    other,      \* Option<Version>: `other`, the right operand of cmp
    value,      \* Option<u64>:     the u64 handed to from_u64
    packed,     \* Option<u64>:     result of to_u64
    unpacked,   \* Option<Version>: result of from_u64
    s,          \* Option<&str>:    the string handed to from_str / is_valid
    parsed,     \* Option<Result<Version, ()>>: result of from_str
    valid,      \* Option<bool>:    result of is_valid
    ord,        \* Option<Ordering>: result of cmp
    pord        \* Option<Option<Ordering>>: result of partial_cmp

vars == <<ver, other, value, packed, unpacked, s, parsed, valid, ord, pord>>

None == <<>>
Some(v) == <<v>>
IsSome(o) == o # <<>>
Get(o) == o[1]

----------------------------------------------------------------------------
(* Bounds of the explored inputs *)

\* fields are drawn from {0..PackSpread} \cup {65535-PackSpread..65535} \cup landmarks
PackSpread == 1
\* cmp operands draw their fields from {0} \cup {65535-OrdSpread..65535}
OrdSpread == 1
\* input strings have at most MaxSegs '.'-separated segments
MaxSegs == 5

----------------------------------------------------------------------------
(* Machine integers *)

U16Bits == 16
U64Bits == 64
U16Max == 65535

U16 == 0..U16Max

\* `x as u64` for a u16 x: zero extension
AsU64(n) == [i \in 0..(U64Bits - 1) |-> IF i < U16Bits THEN (n \div (2 ^ i)) % 2 ELSE 0]

RECURSIVE LowBitsValue(_, _)
LowBitsValue(x, i) ==
    IF i = U16Bits THEN 0 ELSE x[i] * (2 ^ i) + LowBitsValue(x, i + 1)

\* `x as u16` for a u64 x: truncation to the low 16 bits
AsU16(x) == LowBitsValue(x, 0)

\* x << k on u64 (k < 64): bits shifted past bit 63 are lost
Shl(x, k) == [i \in 0..(U64Bits - 1) |-> IF i >= k THEN x[i - k] ELSE 0]

\* x >> k on u64 (k < 64): logical shift
Shr(x, k) == [i \in 0..(U64Bits - 1) |-> IF i + k <= U64Bits - 1 THEN x[i + k] ELSE 0]

BitOr(x, y) == [i \in 0..(U64Bits - 1) |-> IF x[i] = 1 \/ y[i] = 1 THEN 1 ELSE 0]

BitAnd(x, y) == [i \in 0..(U64Bits - 1) |-> IF x[i] = 1 /\ y[i] = 1 THEN 1 ELSE 0]

RECURSIVE CmpFromBit(_, _, _)
CmpFromBit(x, y, i) ==
    IF i < 0 THEN "Equal"
    ELSE IF x[i] < y[i] THEN "Less"
    ELSE IF x[i] > y[i] THEN "Greater"
    ELSE CmpFromBit(x, y, i - 1)

\* u64::cmp: numeric comparison of two unsigned 64-bit values
CmpU64(x, y) == CmpFromBit(x, y, U64Bits - 1)

----------------------------------------------------------------------------
(* Version: construction, packing, unpacking *)

Version == [global : U16, major : U16, minor : U16, patch : U16]

new(global, major, minor, patch) ==
    [global |-> global, major |-> major, minor |-> minor, patch |-> patch]

\* variant of to_u64 with minor shifted by 8: minor overlaps patch
to_u64_overlap(self) ==
    BitOr(BitOr(BitOr(Shl(AsU64(self.global), 48), Shl(AsU64(self.major), 32)),
                Shl(AsU64(self.minor), 8)),
          AsU64(self.patch))

\* variant of to_u64 with global shifted by 56: its high byte is shifted out
to_u64_narrow(self) ==
    BitOr(BitOr(BitOr(Shl(AsU64(self.global), 56), Shl(AsU64(self.major), 32)),
                Shl(AsU64(self.minor), 16)),
          AsU64(self.patch))

\* (global << 48) | (major << 32) | (minor << 16) | patch, each field as u64
to_u64(self) ==
    BitOr(BitOr(BitOr(Shl(AsU64(self.global), 48), Shl(AsU64(self.major), 32)),
                Shl(AsU64(self.minor), 16)),
          AsU64(self.patch))

\* variant of from_u64 masking patch with 0xFF
from_u64_byte_mask(v) ==
    [global |-> AsU16(BitAnd(Shr(v, 48), AsU64(65535))),
     major  |-> AsU16(BitAnd(Shr(v, 32), AsU64(65535))),
     minor  |-> AsU16(BitAnd(Shr(v, 16), AsU64(65535))),
     patch  |-> AsU16(BitAnd(v, AsU64(255)))]

\* each field is ((value >> shift) & 0xFFFF) as u16
from_u64(v) ==
    [global |-> AsU16(BitAnd(Shr(v, 48), AsU64(65535))),
     major  |-> AsU16(BitAnd(Shr(v, 32), AsU64(65535))),
     minor  |-> AsU16(BitAnd(Shr(v, 16), AsU64(65535))),
     patch  |-> AsU16(BitAnd(v, AsU64(65535)))]

----------------------------------------------------------------------------
(* Inputs of the packing round trips *)

PackFieldVals ==
    (0..PackSpread) \cup ((U16Max - PackSpread)..U16Max) \cup {2, 5, 14, 33, 255, 256, 32768}

\* the u64 whose base-65536 digits are l3 l2 l1 l0 (l3 most significant)
U64OfLimbs(l3, l2, l1, l0) ==
    [i \in 0..(U64Bits - 1) |->
        LET l == CASE i \div U16Bits = 0 -> l0
                   [] i \div U16Bits = 1 -> l1
                   [] i \div U16Bits = 2 -> l2
                   [] OTHER -> l3
        IN (l \div (2 ^ (i % U16Bits))) % 2]

\* base-65536 digit k of the u64 x: (x >> 16k) mod 2^16
Limb(x, k) == LowBitsValue([i \in 0..(U16Bits - 1) |-> x[U16Bits * k + i]], 0)

----------------------------------------------------------------------------
(* Packing program: a Version is packed and unpacked again, or a u64 is    *)
(* unpacked and packed again.                                              *)

InitPack ==
    /\ \/ /\ \E g \in PackFieldVals, ma \in PackFieldVals,
                mi \in PackFieldVals, p \in PackFieldVals :
                ver = Some(new(g, ma, mi, p))
          /\ value = None
       \/ /\ ver = None
          /\ \E l3 \in PackFieldVals, l2 \in PackFieldVals,
                l1 \in PackFieldVals, l0 \in PackFieldVals :
                value = Some(U64OfLimbs(l3, l2, l1, l0))
    /\ packed = None
    /\ unpacked = None
    /\ other = None /\ s = None /\ parsed = None /\ valid = None
    /\ ord = None /\ pord = None

\* ver.to_u64(), or from_u64(value).to_u64()
ToU64 ==
    /\ packed = None
    /\ LET self == IF IsSome(ver) THEN ver ELSE unpacked
       IN /\ IsSome(self)
          /\ packed' = Some(to_u64(Get(self)))
    /\ UNCHANGED <<ver, other, value, unpacked, s, parsed, valid, ord, pord>>

\* Version::from_u64(value), or Version::from_u64(ver.to_u64())
FromU64 ==
    /\ unpacked = None
    /\ LET arg == IF IsSome(value) THEN value ELSE packed
       IN /\ IsSome(arg)
          /\ unpacked' = Some(from_u64(Get(arg)))
    /\ UNCHANGED <<ver, other, value, packed, s, parsed, valid, ord, pord>>

NextPack == ToU64 \/ FromU64

SpecPack == InitPack /\ [][NextPack]_vars

----------------------------------------------------------------------------
\* C1: a Version packed by to_u64 and unpacked by from_u64 is recovered
\* unchanged in all four fields.
C1_PackUnpackRoundTrip ==
    (IsSome(ver) /\ IsSome(packed) /\ IsSome(unpacked)) =>
        /\ Get(unpacked).global = Get(ver).global
        /\ Get(unpacked).major = Get(ver).major
        /\ Get(unpacked).minor = Get(ver).minor
        /\ Get(unpacked).patch = Get(ver).patch
        /\ Get(unpacked) = Get(ver)

C1_Witness ==
    /\ IsSome(ver) /\ IsSome(packed) /\ IsSome(unpacked)
    /\ Get(ver) = new(2, 33, 65535, 14)
    /\ Get(unpacked) = new(2, 33, 65535, 14)

\* C2: every u64 handed to from_u64 and packed again by to_u64 comes back
\* bit for bit, whether or not to_u64 could have produced it.
C2_UnpackPackRoundTrip ==
    (IsSome(value) /\ IsSome(unpacked) /\ IsSome(packed)) =>
        \A i \in 0..(U64Bits - 1) : Get(packed)[i] = Get(value)[i]

C2_Witness ==
    /\ IsSome(value) /\ IsSome(unpacked) /\ IsSome(packed)
    /\ Get(value) = U64OfLimbs(65535, 32768, 255, 65534)
    /\ Get(packed) = Get(value)

\* C8: to_u64 puts global in bits 48-63, major in bits 32-47, minor in bits
\* 16-31 and patch in bits 0-15 (its base-65536 digits are global, major,
\* minor, patch: nothing overlaps and nothing is shifted out), and from_u64
\* reads each field as (value >> shift) mod 2^16 for the same shifts.
C8_BitLayout ==
    /\ (IsSome(ver) /\ IsSome(packed)) =>
          /\ Limb(Get(packed), 3) = Get(ver).global
          /\ Limb(Get(packed), 2) = Get(ver).major
          /\ Limb(Get(packed), 1) = Get(ver).minor
          /\ Limb(Get(packed), 0) = Get(ver).patch
          /\ \A i \in 0..(U16Bits - 1) :
                /\ Get(packed)[48 + i] = (Get(ver).global \div (2 ^ i)) % 2
                /\ Get(packed)[32 + i] = (Get(ver).major \div (2 ^ i)) % 2
                /\ Get(packed)[16 + i] = (Get(ver).minor \div (2 ^ i)) % 2
                /\ Get(packed)[i] = (Get(ver).patch \div (2 ^ i)) % 2
    /\ (IsSome(value) /\ IsSome(unpacked)) =>
          /\ Get(unpacked).global = Limb(Get(value), 3)
          /\ Get(unpacked).major = Limb(Get(value), 2)
          /\ Get(unpacked).minor = Limb(Get(value), 1)
          /\ Get(unpacked).patch = Limb(Get(value), 0)
          /\ Get(unpacked) \in Version

C8_Witness ==
    /\ IsSome(ver) /\ IsSome(packed)
    /\ Get(ver) = new(65535, 0, 65535, 1)
    /\ Limb(Get(packed), 3) = 65535
    /\ Limb(Get(packed), 2) = 0
    /\ Get(packed)[63] = 1
    /\ Get(packed)[0] = 1

----------------------------------------------------------------------------
(* Ordering *)

\* variant of cmp with the operands exchanged
cmp_reversed(self, rhs) == CmpU64(to_u64(rhs), to_u64(self))

\* impl Ord: self.to_u64().cmp(&other.to_u64())
cmp(self, rhs) == CmpU64(to_u64(self), to_u64(rhs))

\* impl PartialOrd: Some(self.to_u64().cmp(&other.to_u64()))
partial_cmp(self, rhs) == Some(CmpU64(to_u64(self), to_u64(rhs)))

OrdFieldVals == {0} \cup ((U16Max - OrdSpread)..U16Max)

\* the operand pairs of the crate's own ordering tests
TestPairs ==
    { <<new(2, 33, 5, 14), new(2, 33, 5, 14)>>,
      <<new(2, 33, 5, 15), new(2, 33, 5, 14)>>,
      <<new(2, 33, 5, 13), new(2, 33, 5, 14)>>,
      <<new(0, 0, 0, 0), new(2, 33, 5, 14)>>,
      <<new(2, 32, 65535, 65535), new(2, 33, 5, 14)>> }

InitOrd ==
    /\ \/ \E g \in OrdFieldVals, ma \in OrdFieldVals,
               mi \in OrdFieldVals, p \in OrdFieldVals :
               \E og \in OrdFieldVals, oma \in OrdFieldVals,
                  omi \in OrdFieldVals, op \in OrdFieldVals :
                  /\ ver = Some(new(g, ma, mi, p))
                  /\ other = Some(new(og, oma, omi, op))
       \/ \E pair \in TestPairs :
               /\ ver = Some(pair[1])
               /\ other = Some(pair[2])
    /\ ord = None
    /\ pord = None
    /\ value = None /\ packed = None /\ unpacked = None
    /\ s = None /\ parsed = None /\ valid = None

\* self.cmp(&other)
Cmp ==
    /\ ord = None
    /\ IsSome(ver) /\ IsSome(other)
    /\ ord' = Some(cmp(Get(ver), Get(other)))
    /\ UNCHANGED <<ver, other, value, packed, unpacked, s, parsed, valid, pord>>

\* self.partial_cmp(&other)
PartialCmp ==
    /\ pord = None
    /\ IsSome(ver) /\ IsSome(other)
    /\ pord' = Some(partial_cmp(Get(ver), Get(other)))
    /\ UNCHANGED <<ver, other, value, packed, unpacked, s, parsed, valid, ord>>

NextOrd == Cmp \/ PartialCmp

SpecOrd == InitOrd /\ [][NextOrd]_vars

\* lexicographic comparison of (global, major, minor, patch), global first
LexCmp(a, b) ==
    IF a.global # b.global THEN (IF a.global < b.global THEN "Less" ELSE "Greater")
    ELSE IF a.major # b.major THEN (IF a.major < b.major THEN "Less" ELSE "Greater")
    ELSE IF a.minor # b.minor THEN (IF a.minor < b.minor THEN "Less" ELSE "Greater")
    ELSE IF a.patch # b.patch THEN (IF a.patch < b.patch THEN "Less" ELSE "Greater")
    ELSE "Equal"

\* x < y for u64 values, read off their base-65536 digits
U64Less(x, y) ==
    \E k \in 0..3 :
        /\ Limb(x, k) < Limb(y, k)
        /\ \A j \in (k + 1)..3 : Limb(x, j) = Limb(y, j)

\* C4: cmp and partial_cmp give the lexicographic comparison of (global,
\* major, minor, patch); a < b iff to_u64(a) < to_u64(b); every pair is
\* comparable; Equal exactly when all four fields agree; a higher field
\* dominates the lower ones.
C4_OrderIsLexicographic ==
    /\ IsSome(ord) =>
          LET a == Get(ver)
              b == Get(other)
          IN /\ Get(ord) \in {"Less", "Equal", "Greater"}
             /\ Get(ord) = LexCmp(a, b)
             /\ (Get(ord) = "Less") <=> U64Less(to_u64(a), to_u64(b))
             /\ (Get(ord) = "Equal") <=>
                    (a.global = b.global /\ a.major = b.major /\
                     a.minor = b.minor /\ a.patch = b.patch)
             /\ (a = new(2, 32, 65535, 65535) /\ b = new(2, 33, 5, 14)) =>
                    Get(ord) = "Less"
    /\ IsSome(pord) =>
          /\ IsSome(Get(pord))
          /\ Get(Get(pord)) = LexCmp(Get(ver), Get(other))
    /\ (IsSome(ord) /\ IsSome(pord)) => Get(pord) = Some(Get(ord))

C4_Witness ==
    /\ IsSome(ord) /\ IsSome(pord)
    /\ Get(ver) = new(2, 32, 65535, 65535)
    /\ Get(other) = new(2, 33, 5, 14)
    /\ Get(ord) = "Less"
    /\ Get(pord) = Some("Less")

----------------------------------------------------------------------------
(* Strings: decimal formatting and parsing of u16, splitting on '.' *)

DigitChars == <<"0", "1", "2", "3", "4", "5", "6", "7", "8", "9">>

IsDigit(c) == \E d \in 1..Len(DigitChars) : DigitChars[d] = c

\* char::to_digit(10) of a decimal digit
ToDigit(c) == (CHOOSE d \in 1..Len(DigitChars) : DigitChars[d] = c) - 1

RECURSIVE DisplayU16(_)
\* Display for u16: decimal, no sign, no padding
DisplayU16(n) ==
    IF n < 10 THEN <<DigitChars[n + 1]>>
    ELSE DisplayU16(n \div 10) \o <<DigitChars[(n % 10) + 1]>>

Ok(v) == <<"Ok", v>>
Err == <<"Err">>
IsOk(r) == r[1] = "Ok"
Unwrap(r) == r[2]

RECURSIVE ParseDigits(_, _, _)
\* the digit loop of u16::from_str: checked_mul(10) then checked_add(digit)
ParseDigits(src, i, acc) ==
    IF i > Len(src) THEN Ok(acc)
    ELSE IF ~IsDigit(src[i]) THEN Err
    ELSE IF acc * 10 > U16Max THEN Err
    ELSE IF acc * 10 + ToDigit(src[i]) > U16Max THEN Err
    ELSE ParseDigits(src, i + 1, acc * 10 + ToDigit(src[i]))

\* u16::from_str(e): empty, a lone sign, a non-digit or an overflow is an
\* error; one leading '+' is skipped; '-' is no sign of an unsigned type
ParseU16(src) ==
    IF Len(src) = 0 THEN Err
    ELSE IF src = <<"+">> \/ src = <<"-">> THEN Err
    ELSE IF src[1] = "+" THEN ParseDigits(src, 2, 0)
    ELSE ParseDigits(src, 1, 0)

RECURSIVE SplitFrom(_, _, _)
SplitFrom(str, i, cur) ==
    IF i > Len(str) THEN <<cur>>
    ELSE IF str[i] = "." THEN <<cur>> \o SplitFrom(str, i + 1, <<>>)
    ELSE SplitFrom(str, i + 1, Append(cur, str[i]))

\* s.split("."): the segments between the dots; "" gives one empty segment
Split(str) == SplitFrom(str, 1, <<>>)

----------------------------------------------------------------------------
(* Version: validation, formatting, parsing *)

\* variant of is_valid expecting 4 segments
is_valid_four(str) ==
    LET segs == Split(str)
    IN IF Len(segs) # 4 THEN FALSE
       ELSE \A i \in 1..Len(segs) : IsOk(ParseU16(segs[i]))

\* variant of is_valid with any() in place of all()
is_valid_any(str) ==
    LET segs == Split(str)
    IN IF Len(segs) # 3 THEN FALSE
       ELSE \E i \in 1..Len(segs) : IsOk(ParseU16(segs[i]))

is_valid(str) ==
    LET segs == Split(str)
    IN IF Len(segs) # 3 THEN FALSE
       ELSE \A i \in 1..Len(segs) : IsOk(ParseU16(segs[i]))

\* variant of fmt writing minor before major
fmt_swapped(self) ==
    DisplayU16(self.global) \o <<".">> \o DisplayU16(self.minor) \o <<".">> \o
    DisplayU16(self.major) \o <<".">> \o DisplayU16(self.patch)

\* impl Display: write!(f, "{}.{}.{}.{}", global, major, minor, patch)
fmt(self) ==
    DisplayU16(self.global) \o <<".">> \o DisplayU16(self.major) \o <<".">> \o
    DisplayU16(self.minor) \o <<".">> \o DisplayU16(self.patch)

\* variant of from_str rejecting more than four segments
from_str_exact(str) ==
    LET segs == Split(str)
        next(i) == IF i > Len(segs) THEN Err ELSE ParseU16(segs[i])
    IN IF Len(segs) # 4 THEN Err
       ELSE IF ~IsOk(next(1)) THEN Err
       ELSE IF ~IsOk(next(2)) THEN Err
       ELSE IF ~IsOk(next(3)) THEN Err
       ELSE IF ~IsOk(next(4)) THEN Err
       ELSE Ok(new(Unwrap(next(1)), Unwrap(next(2)), Unwrap(next(3)), Unwrap(next(4))))

\* variant of from_str reading 0 for a segment that is no u16
from_str_default(str) ==
    LET segs == Split(str)
        next(i) == IF i > Len(segs) THEN Err ELSE ParseU16(segs[i])
        orZero(r) == IF IsOk(r) THEN Unwrap(r) ELSE 0
    IN IF Len(segs) < 4 THEN Err
       ELSE Ok(new(orZero(next(1)), orZero(next(2)), orZero(next(3)), orZero(next(4))))

\* impl FromStr: the i-th next()?? takes segment i of the split, fails with
\* Err(()) when the iterator is exhausted or the segment is no u16, and the
\* fields are read in the order global, major, minor, patch
from_str(str) ==
    LET segs == Split(str)
        next(i) == IF i > Len(segs) THEN Err ELSE ParseU16(segs[i])
    IN IF ~IsOk(next(1)) THEN Err
       ELSE IF ~IsOk(next(2)) THEN Err
       ELSE IF ~IsOk(next(3)) THEN Err
       ELSE IF ~IsOk(next(4)) THEN Err
       ELSE Ok(new(Unwrap(next(1)), Unwrap(next(2)), Unwrap(next(3)), Unwrap(next(4))))

----------------------------------------------------------------------------
(* Inputs of the string program *)

SegSamples ==
    { <<>>,
      <<"6", "5", "5", "3", "5">>,
      <<"6", "5", "5", "3", "6">>,
      <<"+", "5">>,
      <<"-", "5">>,
      <<"x">> }

RECURSIVE Join(_)
Join(segs) ==
    IF Len(segs) = 1 THEN segs[1]
    ELSE segs[1] \o <<".">> \o Join(Tail(segs))

\* the strings of the crate's own tests, two of them with trailing segments,
\* three with a blank around a segment, one with leading zeros
TestStrings ==
    { <<>>,
      <<"2", ".", "3", "3", ".", "5">>,
      <<"2", ".", "3", "3", ".", "5", ".", ".">>,
      <<"2", ".", "3", "3", ".", "5", ".", "1", "4">>,
      <<"2", ".", "3", "3", ".", "5", ".", "1", "4", ".", "x">>,
      <<"2", ".", "3", "3", ".", "5", ".", "1", "4", ".">>,
      <<"2", ".", "3", "3", ".", "5", ".", "1", "4", " ">>,
      <<" ", "2", ".", "3", "3", ".", "5", ".", "1", "4">>,
      <<"2", ".", "3", "3", " ", ".", "5", ".", "1", "4">>,
      <<"0", "0", "7", ".", "0", ".", "1", "0", ".", "0", "0">> }

----------------------------------------------------------------------------
(* String program: a Version is formatted and the text parsed and          *)
(* validated, or a given string is parsed and validated.                   *)

InitStr ==
    /\ \/ /\ \E g \in PackFieldVals, ma \in PackFieldVals,
                mi \in PackFieldVals, p \in PackFieldVals :
                ver = Some(new(g, ma, mi, p))
          /\ s = None
       \/ /\ ver = None
          /\ \/ \E str \in TestStrings : s = Some(str)
             \/ \E n \in 1..MaxSegs :
                   \E segs \in [1..n -> SegSamples] : s = Some(Join(segs))
    /\ parsed = None
    /\ valid = None
    /\ other = None /\ value = None /\ packed = None /\ unpacked = None
    /\ ord = None /\ pord = None

\* ver.to_string()
Fmt ==
    /\ IsSome(ver)
    /\ s = None
    /\ s' = Some(fmt(Get(ver)))
    /\ UNCHANGED <<ver, other, value, packed, unpacked, parsed, valid, ord, pord>>

\* Version::from_str(s)
FromStr ==
    /\ IsSome(s)
    /\ parsed = None
    /\ parsed' = Some(from_str(Get(s)))
    /\ UNCHANGED <<ver, other, value, packed, unpacked, s, valid, ord, pord>>

\* Version::is_valid(s)
IsValid ==
    /\ IsSome(s)
    /\ valid = None
    /\ valid' = Some(is_valid(Get(s)))
    /\ UNCHANGED <<ver, other, value, packed, unpacked, s, parsed, ord, pord>>

NextStr == Fmt \/ FromStr \/ IsValid

SpecStr == InitStr /\ [][NextStr]_vars

----------------------------------------------------------------------------
(* Vocabulary of the string claims, read off the characters *)

Segs == Split(Get(s))

\* the segments from_str looks at: the first four, or all when fewer
FirstFour == 1..(IF Len(Segs) < 4 THEN Len(Segs) ELSE 4)

AllDigits(seg) == Len(seg) > 0 /\ \A i \in 1..Len(seg) : IsDigit(seg[i])

RECURSIVE DecimalValue(_)
\* the number a non-empty all-digit segment denotes
DecimalValue(seg) ==
    IF Len(seg) = 0 THEN 0
    ELSE DecimalValue(SubSeq(seg, 1, Len(seg) - 1)) * 10 + ToDigit(seg[Len(seg)])

\* a plain decimal integer in 0..=65535: digits only
PlainU16(seg) == AllDigits(seg) /\ DecimalValue(seg) <= U16Max

NonNumeric(seg) == \E i \in 1..Len(seg) : ~IsDigit(seg[i]) /\ seg[i] \notin {"+", "-"}

Negative(seg) == Len(seg) > 0 /\ seg[1] = "-"

TooBig(seg) == AllDigits(seg) /\ DecimalValue(seg) > U16Max

Signed(seg) == Len(seg) > 0 /\ seg[1] \in {"+", "-"}

Blanked(seg) == Len(seg) > 0 /\ (seg[1] = " " \/ seg[Len(seg)] = " ")

\* C3: the text Display produces for a Version parses, with from_str, to Ok
\* of that same Version.
C3_FormatParseRoundTrip ==
    (IsSome(ver) /\ IsSome(s) /\ IsSome(parsed)) =>
        /\ IsOk(Get(parsed))
        /\ Get(parsed) = Ok(Get(ver))

C3_Witness ==
    /\ ver = Some(new(2, 33, 5, 14))
    /\ s = Some(<<"2", ".", "3", "3", ".", "5", ".", "1", "4">>)
    /\ parsed = Some(Ok(new(2, 33, 5, 14)))

\* C5: from_str gives Err(()) whenever the split has fewer than four
\* segments or one of the first four is no u16 (empty, non-numeric, negative
\* or above 65535); the result is Err or Ok of a complete Version, never
\* anything in between; "", "2.33.5" and "2.33.5.." are errors.
C5_MalformedIsErr ==
    IsSome(parsed) =>
        /\ Get(parsed) = Err \/ (IsOk(Get(parsed)) /\ Unwrap(Get(parsed)) \in Version)
        /\ Len(Segs) < 4 => Get(parsed) = Err
        /\ (\E i \in FirstFour : ~IsOk(ParseU16(Segs[i]))) => Get(parsed) = Err
        /\ (\E i \in FirstFour : \/ Segs[i] = <<>>
                                 \/ NonNumeric(Segs[i])
                                 \/ Negative(Segs[i])
                                 \/ TooBig(Segs[i])) => Get(parsed) = Err
        /\ Get(s) \in { <<>>,
                        <<"2", ".", "3", "3", ".", "5">>,
                        <<"2", ".", "3", "3", ".", "5", ".", ".">> } => Get(parsed) = Err

C5_Witness ==
    /\ s = Some(<<"6", "5", "5", "3", "5", ".", "6", "5", "5", "3", "5", ".",
                  "6", "5", "5", "3", "6", ".", "6", "5", "5", "3", "5">>)
    /\ parsed = Some(Err)

\* C6: is_valid is true exactly when the split has 3 segments and each is a
\* u16; it is false for every other segment count (4 included) and for an
\* empty, a non-numeric or an above-65535 segment.
C6_IsValidThreeSegments ==
    IsSome(valid) =>
        /\ Get(valid) <=> (Len(Segs) = 3 /\ \A i \in 1..3 : IsOk(ParseU16(Segs[i])))
        /\ Len(Segs) # 3 => ~Get(valid)
        /\ (\E i \in 1..Len(Segs) : \/ Segs[i] = <<>>
                                    \/ NonNumeric(Segs[i])
                                    \/ TooBig(Segs[i])) => ~Get(valid)
        /\ (Len(Segs) = 3 /\ \A i \in 1..3 : PlainU16(Segs[i])) => Get(valid)

C6_Witness ==
    /\ s = Some(<<"2", ".", "3", "3", ".", "5">>)
    /\ valid = Some(TRUE)

\* C7: from_str rejects every input in which one of the four segments it
\* reads carries a leading '+' or '-' or a blank at either end, so every
\* segment it accepts is a plain decimal integer in 0..=65535.
C7_NoSignNoBlank ==
    IsSome(parsed) =>
        /\ (\E i \in FirstFour : Signed(Segs[i]) \/ Blanked(Segs[i])) => Get(parsed) = Err
        /\ IsOk(Get(parsed)) => \A i \in FirstFour : PlainU16(Segs[i])

\* C9: from_str reads only the first four segments: when each of them is a
\* u16 the result is Ok of those four values, whatever follows.
C9_TrailingSegmentsIgnored ==
    (IsSome(parsed) /\ Len(Segs) >= 4 /\ \A i \in 1..4 : IsOk(ParseU16(Segs[i]))) =>
        /\ Get(parsed) = Ok(new(Unwrap(ParseU16(Segs[1])), Unwrap(ParseU16(Segs[2])),
                                Unwrap(ParseU16(Segs[3])), Unwrap(ParseU16(Segs[4]))))
        /\ (\A i \in 1..4 : PlainU16(Segs[i])) =>
              Get(parsed) = Ok(new(DecimalValue(Segs[1]), DecimalValue(Segs[2]),
                                   DecimalValue(Segs[3]), DecimalValue(Segs[4])))

C9_Witness ==
    /\ s = Some(<<"2", ".", "3", "3", ".", "5", ".", "1", "4", ".", "x">>)
    /\ parsed = Some(Ok(new(2, 33, 5, 14)))

\* C10: no string is accepted by both is_valid and from_str, and the text of
\* a formatted Version is never valid.
C10_ValidatorParserDisjoint ==
    (IsSome(valid) /\ IsSome(parsed)) =>
        /\ Get(valid) => Get(parsed) = Err
        /\ IsOk(Get(parsed)) => ~Get(valid)
        /\ IsSome(ver) => ~Get(valid)

C10_Witness ==
    /\ s = Some(<<"2", ".", "3", "3", ".", "5">>)
    /\ valid = Some(TRUE)
    /\ parsed = Some(Err)

====
